---- MODULE Spec2Model ----
(***************************************************************************)
(* Tablet desk clock (src/clock.js): the corrected clock, the scheduleCall *)
(* primitive, the retrying JSON fetcher, the periodic jobs (clock display, *)
(* wallpaper, weather, morning pane) with their wake times and what their  *)
(* callbacks show, and the admin pane's reload, as a state machine over    *)
(* the browser's event loop.                                               *)
(*                                                                         *)
(* Time is in milliseconds.  `now` is Date.now(); every handler runs to    *)
(* completion at one reading of `now` (one turn of the event loop).        *)
(***************************************************************************)
EXTENDS Integers, Sequences, FiniteSets, TLC

VARIABLES
    now,         \* Date.now() of the client
    timeOffset,  \* clock.js:44, server time minus client time
    timers,      \* pending setTimeout of scheduleCall (clock.js:64)
    running,     \* the func() call scheduleCall has begun (clock.js:62), or NoCall
    xhrs,        \* XMLHttpRequests sent and not yet completed (clock.js:81)
    retries,     \* pending back-off setTimeout of getAndProcessJson (clock.js:76)
    fetches,     \* history: per observed getAndProcessJson sequence, what it did so far
    backgroundImage, \* the wallpaper shown by the clock element (clock.js:111)
    requested,   \* history: the scheduleCall(func, wake) calls made by the environment
    invoked,     \* history: how often each callback given to scheduleCall was invoked
    zone,        \* local time minus UTC of the client's time zone
    boot,        \* the initialization calls (clock.js:157, 229) not yet made
    weatherTextIsSet, \* clock.js:186
    failsafes,   \* pending placeholder setTimeout of autoUpdateWeather (clock.js:210)
    armed,       \* history: the wake times the periodic jobs computed
    clockText,   \* the text nodes of the clock display (clock.js:89-92)
    weatherText, \* the three text nodes of the weather display (clock.js:183-185)
    adminLastWeather, \* the text node "admin-last-weather" (clock.js:201)
    reminders,   \* the list items of "morning-reminders" (clock.js:238)
    morningShown,\* whether the morning pane is displayed (clock.js:249, 255)
    hides,       \* pending setTimeout(hideMorning, ...) of showMorning (clock.js:251)
    depth,       \* how many showMorning calls are on the stack (clock.js:250, 62)
    clicks,      \* history: how many admin actions and clicks the user has made
    started,     \* history: Date.now() when the page was loaded
    offsetWrites,\* history: how often timeOffset was assigned (clock.js:136)
    doneSince,   \* history: the pending placeholder timers (by due time) since whose
                 \* arming a weather callback has completed
    formatted    \* history: the twoDigits calls made directly by the environment

\* The state of the periodic jobs
jobVars == <<zone, boot, weatherTextIsSet, failsafes, armed>>

\* The page's display, the morning pane and the remaining histories
pageVars == <<clockText, weatherText, adminLastWeather, reminders, morningShown, hides,
              depth, clicks, started, offsetWrites, doneSince, formatted>>

vars == <<now, timeOffset, timers, running, xhrs, retries, fetches, backgroundImage,
          requested, invoked, jobVars, pageVars>>

----------------------------------------------------------------------------
(* Bounds of the model *)

\* scheduleCall is called by the environment while now <= MaxStart
MaxStart == 2
\* a caller asks for a wake time at most MaxDelay ms after corrected-now
MaxDelay == 3
\* a due timeout or timer is served less than MaxLate ms late
MaxLate == 1
\* the page is loaded on one of the local days 1 .. MaxDay
MaxDay == 1
\* at most MaxDepth showMorning calls nest before the client's clock ticks
MaxDepth == 1
\* the user makes at most MaxClicks admin actions and clicks
MaxClicks == 1
\* the page is followed for MaxSeconds seconds after it was loaded
MaxSeconds == 3
\* twoDigits is tried on numbers up to MaxExcess below 0 and beyond 99
MaxExcess == 15
\* the fetching jobs are followed for MaxMinutes minutes after the page was loaded
MaxMinutes == 16
\* the range of Date (8.64e15 ms either side of the epoch) is scaled down to
\* MaxTimeValue ms, beyond every instant at which the page is followed
MaxTimeValue == 2000000000

(* Program constants *)

\* clock.js:137, heuristic for detecting a local server
LocalServerThreshold == 50
\* clock.js:134, per-attempt timeout of the time request
TimeTimeout == 1000
\* clock.js:108, per-attempt timeout of the wallpaper request
WallpaperTimeout == 3000
\* clock.js:190, per-attempt timeout of the weather request
WeatherTimeout == 10000
\* clock.js:214, delay of the weather placeholder
FailsafeDelay == 3000
\* clock.js:123, the local hour of the daily wallpaper change
WallpaperHour == 5
\* clock.js:220, the minute of the hour of the weather update
WeatherMinute == 4
\* clock.js:75, the last retry count whose timeout is not retried
LastRetryCount == 9
\* clock.js:76, the back-off delay after the first attempt
BackoffUnit == 1000
\* clock.js:271, per-attempt timeout of the reminders request
MorningTimeout == 3000
\* clock.js:297, the local hour at which the morning pane is shown
MorningHour == 7

----------------------------------------------------------------------------
(* Values *)

NoCall == [func |-> "none", wake |-> 0]

\* The callbacks handed to scheduleCall by the environment of SpecSched
Callbacks == {"cb1", "cb2"}

Abs(n) == IF n < 0 THEN -n ELSE n

\* A parsed JSON value: its typeof and, for a number, its value
JsonNumber(n) == [type |-> "number", val |-> n]
JsonString(n) == [type |-> "string", val |-> n]
\* A response body JSON.parse rejects
Malformed     == [type |-> "malformed", val |-> 0]
\* The other parsed JSON values: true, null, the array [] and the n-th object
\* an endpoint serves (object 0 is {})
JsonBoolean   == [type |-> "boolean", val |-> 1]
JsonNull      == [type |-> "null", val |-> 0]
JsonArray     == [type |-> "array", val |-> 0]
JsonObject(n) == [type |-> "object", val |-> n]

\* typeof data
Typeof(data) == IF data.type \in {"null", "array", "object"} THEN "object" ELSE data.type

\* Differences server time - client time the time endpoint may show:
\* both sides of the local-server threshold, both signs
Skews == { -(LocalServerThreshold + 1), -LocalServerThreshold, -(LocalServerThreshold - 1),
           0,
           LocalServerThreshold - 1, LocalServerThreshold, LocalServerThreshold + 1 }

----------------------------------------------------------------------------
(* CorrectedClock *)

\* getCorrectedDatetime().getTime()
CorrectedNow == now + timeOffset

\* getCorrectedDatetime() is a valid Date: a time value beyond the range of
\* Date makes an Invalid Date, whose getTime() and fields are NaN
ValidDate == Abs(now + timeOffset) <= MaxTimeValue

\* The calibration with the test `Math.abs(timeOffset) <= 50`
CalibratedOffsetInclusive(data) ==
    IF data.type = "number"
    THEN LET off == data.val - now
         IN  IF Abs(off) <= LocalServerThreshold THEN 0 ELSE off
    ELSE timeOffset

\* The calibration without the test `typeof data == "number"`
CalibratedOffsetUntyped(data) ==
    LET off == data.val - now
    IN  IF Abs(off) < LocalServerThreshold THEN 0 ELSE off

\* The success callback of updateTimeOffset: the offset stored for payload `data`
CalibratedOffset(data) ==
    IF data.type = "number"
    THEN LET off == data.val - now
         IN  IF Abs(off) < LocalServerThreshold THEN 0 ELSE off
    ELSE timeOffset

\* The success callback of randomizeWallpaper: the wallpaper shown for payload
\* `data` (0: the one of the style sheet, n: the file named by string n)
WallpaperShown(data) ==
    IF data.type = "string" THEN data.val ELSE backgroundImage

----------------------------------------------------------------------------
(* Date: an instant is its time value, the milliseconds since the epoch.  The
   client's zone is a fixed offset from UTC (no daylight-saving transitions). *)

MsPerSecond == 1000
MsPerMinute == 60 * MsPerSecond
MsPerHour   == 60 * MsPerMinute
MsPerDay    == 24 * MsPerHour

\* LocalTime(t): the instant on the local time scale
LocalTime(t)   == t + zone
\* Day(LocalTime(t)): the local day number
LocalDay(t)    == LocalTime(t) \div MsPerDay
\* TimeWithinDay(LocalTime(t))
TimeWithinDay(t) == LocalTime(t) % MsPerDay

GetHours(t)        == TimeWithinDay(t) \div MsPerHour
GetMinutes(t)      == (TimeWithinDay(t) % MsPerHour) \div MsPerMinute
GetSeconds(t)      == (TimeWithinDay(t) % MsPerMinute) \div MsPerSecond
GetMilliseconds(t) == TimeWithinDay(t) % MsPerSecond

\* UTC(MakeDate(day, MakeTime(hour, min, sec, ms))): fields out of range carry over
MakeLocal(day, hour, min, sec, ms) ==
    day * MsPerDay + hour * MsPerHour + min * MsPerMinute + sec * MsPerSecond + ms - zone

SetHours(t, hour) ==
    MakeLocal(LocalDay(t), hour, GetMinutes(t), GetSeconds(t), GetMilliseconds(t))
SetMinutes(t, min) ==
    MakeLocal(LocalDay(t), GetHours(t), min, GetSeconds(t), GetMilliseconds(t))
SetSeconds(t, sec) ==
    MakeLocal(LocalDay(t), GetHours(t), GetMinutes(t), sec, GetMilliseconds(t))
SetMilliseconds(t, ms) ==
    MakeLocal(LocalDay(t), GetHours(t), GetMinutes(t), GetSeconds(t), ms)
\* d.setDate(d.getDate() + 1): the same local time of day on the next day
SetDateToNext(t) ==
    MakeLocal(LocalDay(t) + 1, GetHours(t), GetMinutes(t), GetSeconds(t), GetMilliseconds(t))

\* The civil date of local day number `z` (days since 1970-01-01), as the
\* proleptic Gregorian calendar of Date has it
CivilFromDays(z) ==
    LET zz  == z + 719468
        era == zz \div 146097
        doe == zz % 146097
        yoe == (doe - doe \div 1460 + doe \div 36524 - doe \div 146096) \div 365
        doy == doe - (365 * yoe + yoe \div 4 - yoe \div 100)
        mp  == (5 * doy + 2) \div 153
        m   == IF mp < 10 THEN mp + 3 ELSE mp - 9
    IN  [year  |-> yoe + era * 400 + (IF m <= 2 THEN 1 ELSE 0),
         month |-> m - 1,
         date  |-> doy - (153 * mp + 2) \div 5 + 1]

GetFullYear(t) == CivilFromDays(LocalDay(t)).year
\* d.getMonth(): 0 for January
GetMonth(t)    == CivilFromDays(LocalDay(t)).month
GetDate(t)     == CivilFromDays(LocalDay(t)).date
\* d.getDay(): 0 for Sunday; 1970-01-01 was a Thursday
GetDay(t)      == (LocalDay(t) + 4) % 7

GetUTCDate(t)    == CivilFromDays(t \div MsPerDay).date
GetUTCDay(t)     == (t \div MsPerDay + 4) % 7
GetUTCHours(t)   == (t % MsPerDay) \div MsPerHour
GetUTCMinutes(t) == (t % MsPerHour) \div MsPerMinute

----------------------------------------------------------------------------
(* twoDigits.  A string of digits is the sequence of its digits; a number
   given to twoDigits is held in tenths, so that 7.5 is a value. *)

\* The integer n as a number
Num(n) == [type |-> "number", tenths |-> 10 * n]

RECURSIVE DecimalString(_)
\* "" + n for a natural number n
DecimalString(n) == IF n < 10 THEN <<n>> ELSE Append(DecimalString(n \div 10), n % 10)

\* A twoDigits that does not pad
TwoDigitsUnpadded(v) ==
    IF v.type # "number" \/ v.tenths < 0 \/ v.tenths >= 100 * 10 \/ v.tenths % 10 # 0
    THEN [threw |-> TRUE, text |-> <<>>]
    ELSE [threw |-> FALSE, text |-> DecimalString(v.tenths \div 10)]

\* twoDigits(n): the text returned, or that "Integer expected" was thrown
TwoDigits(v) ==
    IF v.type # "number" \/ v.tenths < 0 \/ v.tenths >= 100 * 10 \/ v.tenths % 10 # 0
    THEN [threw |-> TRUE, text |-> <<>>]
    ELSE LET n == v.tenths \div 10
         IN  [threw |-> FALSE, text |-> (IF n < 10 THEN <<0>> ELSE <<>>) \o DecimalString(n)]

\* The arguments autoUpdateClockDisplay gives to twoDigits at corrected time d,
\* in the order of the calls
DisplayArgs(d) ==
    <<GetSeconds(d), GetHours(d), GetMinutes(d),
      GetUTCDate(d), GetUTCHours(d), GetUTCMinutes(d),
      GetMonth(d) + 1, GetDate(d)>>

\* Whether one of the first k twoDigits calls of autoUpdateClockDisplay throws
DisplayThrows(d, k) == \E i \in 1 .. k : TwoDigits(Num(DisplayArgs(d)[i])).threw

\* The text nodes after autoUpdateClockDisplay ran at corrected time d: a
\* node keeps its text if a twoDigits call up to its own threw
ClockDisplay(d) ==
    LET two(i) == TwoDigits(Num(DisplayArgs(d)[i])).text
    IN  [seconds |-> IF DisplayThrows(d, 1) THEN clockText.seconds ELSE <<two(1)>>,
         time    |-> IF DisplayThrows(d, 3) THEN clockText.time ELSE <<two(2), two(3)>>,
         utc     |-> IF DisplayThrows(d, 6) THEN clockText.utc
                     ELSE <<two(4), <<GetUTCDay(d)>>, two(5), two(6)>>,
         date    |-> IF DisplayThrows(d, 8) THEN clockText.date
                     ELSE <<DecimalString(GetFullYear(d)), two(7), two(8), <<GetDay(d)>>>>]

\* The text nodes of a page just loaded
NoClockText == [seconds |-> <<>>, time |-> <<>>, utc |-> <<>>, date |-> <<>>]

----------------------------------------------------------------------------
(* Scheduler *)

\* scheduleCall with the test `delay < 0`: a wake time equal to corrected-now
\* goes through setTimeout(..., 0)
ScheduleCallStrict(func, wake, tm) ==
    LET delay == wake - CorrectedNow
    IN  IF delay < 0
        THEN /\ running' = [func |-> func, wake |-> wake]
             /\ timers' = tm
        ELSE /\ timers' = tm \cup {[func |-> func, wake |-> wake, due |-> now + delay]}
             /\ running' = NoCall

\* scheduleCall(func, wake), called with the set `tm` of timers pending.  With
\* an Invalid Date for corrected-now the delay is NaN: `NaN <= 0` is false, and
\* setTimeout takes a NaN delay as 0.
ScheduleCall(func, wake, tm) ==
    LET delay == wake - CorrectedNow
    IN  IF ValidDate /\ delay <= 0
        THEN /\ running' = [func |-> func, wake |-> wake]
             /\ timers' = tm
        ELSE /\ timers' = tm \cup {[func |-> func, wake |-> wake,
                                    due |-> now + (IF ValidDate THEN delay ELSE 0)]}
             /\ running' = NoCall

\* Some caller calls scheduleCall(cb, wake)
CallScheduleCall(cb, wake) ==
    /\ running = NoCall
    /\ now <= MaxStart
    /\ \A r \in requested : r.func # cb
    /\ requested' = requested \cup {[func |-> cb, wake |-> wake, at |-> CorrectedNow,
                                      early |-> FALSE]}
    /\ ScheduleCall(cb, wake, timers)
    /\ UNCHANGED <<now, timeOffset, xhrs, retries, fetches, backgroundImage, invoked>>
    /\ UNCHANGED jobVars
    /\ UNCHANGED pageVars

\* History: the requests `req`, with the request whose timer `t` fires while
\* corrected-now < wake marked as having fired early
FiredAt(t, req) ==
    {IF r.func = t.func /\ CorrectedNow < t.wake THEN [r EXCEPT !.early = TRUE] ELSE r :
        r \in req}

\* A timer callback that trusts the timer and calls func without looking at
\* the corrected clock again
SchedTimerFireTrusting(t) ==
    /\ running = NoCall
    /\ t \in timers
    /\ now >= t.due
    /\ running' = [func |-> t.func, wake |-> t.wake]
    /\ timers' = timers \ {t}
    /\ requested' = FiredAt(t, requested)
    /\ UNCHANGED <<now, timeOffset, xhrs, retries, fetches, backgroundImage, invoked>>
    /\ UNCHANGED jobVars
    /\ UNCHANGED pageVars

\* A timer callback that calls func if the wake time has come and otherwise
\* gives up, without arming another timer
SchedTimerFireDropping(t) ==
    /\ running = NoCall
    /\ t \in timers
    /\ now >= t.due
    /\ timers' = timers \ {t}
    /\ running' = IF t.wake - CorrectedNow <= 0 THEN [func |-> t.func, wake |-> t.wake]
                  ELSE NoCall
    /\ requested' = FiredAt(t, requested)
    /\ UNCHANGED <<now, timeOffset, xhrs, retries, fetches, backgroundImage, invoked>>
    /\ UNCHANGED jobVars
    /\ UNCHANGED pageVars

\* The timer armed at clock.js:64 fires (at its due time or later)
SchedTimerFire(t) ==
    /\ running = NoCall
    /\ t \in timers
    /\ now >= t.due
    /\ ScheduleCall(t.func, t.wake, timers \ {t})
    /\ requested' = FiredAt(t, requested)
    /\ UNCHANGED <<now, timeOffset, xhrs, retries, fetches, backgroundImage, invoked>>
    /\ UNCHANGED jobVars
    /\ UNCHANGED pageVars

\* func() of clock.js:62 for a callback of the environment: it records its call
RunCallback ==
    /\ running.func \in Callbacks
    /\ invoked' = [invoked EXCEPT ![running.func] = @ + 1]
    /\ running' = NoCall
    /\ UNCHANGED <<now, timeOffset, timers, xhrs, retries, fetches, backgroundImage, requested>>
    /\ UNCHANGED jobVars
    /\ UNCHANGED pageVars

----------------------------------------------------------------------------
(* RetryingFetcher *)

TimeUrl      == "/time.json"
WallpaperUrl == "/random-wallpaper.json"
WeatherUrl   == "/weather.json"
MorningUrl   == "/morning-reminders.json"

\* The timeout each caller passes to getAndProcessJson
TimeoutOf(url) ==
    CASE url = TimeUrl      -> TimeTimeout
      [] url = WallpaperUrl -> WallpaperTimeout
      [] url = WeatherUrl   -> WeatherTimeout
      [] url = MorningUrl   -> MorningTimeout

RECURSIVE Pow2(_)
\* Math.pow(2, n) for a retry count n
Pow2(n) == IF n = 0 THEN 1 ELSE 2 * Pow2(n - 1)

\* A back-off that grows by one unit per attempt instead of doubling
BackoffDelayLinear(retryCount) == (retryCount + 1) * BackoffUnit

\* The delay of the retry armed after attempt `retryCount` timed out
BackoffDelay(retryCount) == Pow2(retryCount) * BackoffUnit

\* The retry test `retryCount <= 9`
ShouldRetryInclusive(retryCount) == retryCount <= LastRetryCount

\* Whether a timed-out attempt `retryCount` is followed by another attempt
ShouldRetry(retryCount) == retryCount < LastRetryCount

\* What a sequence of attempts has done so far
\* (here: right after its first XMLHttpRequest was sent)
NewFetch(url) == [url |-> url, attempts |-> 1, delays |-> <<>>, delivered |-> <<>>,
                  raised |-> 0, failed |-> 0]

\* The body of getAndProcessJson(url, timeout, retryCount, func) for sequence `id`:
\* one more XMLHttpRequest is sent
SendXhr(id, url, timeout, retryCount) ==
    /\ xhrs' = xhrs \cup {[id |-> id, url |-> url, timeout |-> timeout,
                           retryCount |-> retryCount, sent |-> now]}

\* The weather reports the weather endpoint serves as objects 1 and 2, their
\* fields as the page renders them; object 0 has none of the fields
Report(n) ==
    IF n = 1
    THEN [sunrise |-> "06:01", sunset |-> "18:02", condition |-> "Sunny", temperature |-> "22"]
    ELSE IF n = 2
    THEN [sunrise |-> "06:03", sunset |-> "18:00", condition |-> "Rain", temperature |-> "-3"]
    ELSE [sunrise |-> "undefined", sunset |-> "undefined", condition |-> "undefined",
          temperature |-> "NaN"]

\* The three weather texts; a text is the sequence of its parts
WeatherLoading == [sunriseset |-> <<>>, temperature |-> <<>>,
                   condition |-> <<"(Weather loading...)">>]
WeatherError   == [sunriseset |-> <<>>, temperature |-> <<>>,
                   condition |-> <<"(Weather: Data error)">>]
WeatherOf(n)   == [sunriseset  |-> <<"SUN", Report(n).sunrise, "~", Report(n).sunset, "MOON">>,
                   condition   |-> <<Report(n).condition>>,
                   temperature |-> <<Report(n).temperature, "C">>]
\* The texts of a page just loaded
NoWeatherText  == [sunriseset |-> <<>>, temperature |-> <<>>, condition |-> <<>>]

\* The weather texts after the callback of doWeatherRequest got `data`: an
\* array and an object without the fields have undefined fields
WeatherShown(data) ==
    IF Typeof(data) # "object" THEN WeatherError
    ELSE WeatherOf(IF data.type = "object" THEN data.val ELSE 0)

\* The YYYYMMDD key of local day number z, as the reminders endpoint writes it
DateKey(z) ==
    LET c == CivilFromDays(z)
    IN  DecimalString(c.year * 10000 + (c.month + 1) * 100 + c.date)

\* A key that pads neither the month nor the day of the month
ReminderKeyUnpadded(d) ==
    DecimalString(GetFullYear(d)) \o DecimalString(GetMonth(d) + 1) \o DecimalString(GetDate(d))

\* The key doMorningRequest's callback looks up at corrected time d (clock.js:278)
ReminderKey(d) ==
    DecimalString(GetFullYear(d))
      \o (IF GetMonth(d) + 1 < 10 THEN <<0>> ELSE <<>>) \o DecimalString(GetMonth(d) + 1)
      \o (IF GetDate(d) < 10 THEN <<0>> ELSE <<>>) \o DecimalString(GetDate(d))

\* The local days on which the page is loaded at the morning pane's hour: days
\* of January 1970 with a one-digit and with a two-digit day of the month
\* (time values are kept below 2^31)
LoadDays == {MaxDay, MaxDay + 14}

\* The local days the reminders endpoint has entries for
ReminderDays == UNION {{z - 1, z, z + 1} : z \in LoadDays}

\* The reminders of local day z in the n-th object of the reminders endpoint
RemindersOfDay(n, z) ==
    IF n = 1 THEN (IF z % 2 = 0 THEN <<"Buy milk", "Call home">> ELSE <<"Pay rent">>)
    ELSE <<>>

\* The n-th object the reminders endpoint serves, as key -> list of messages:
\* 1 has reminders for every day, 2 an empty list for every day, 3 has only
\* the day before the first one, and 0 is {}
ReminderMap(n) ==
    LET days == IF n \in {1, 2} THEN ReminderDays ELSE IF n = 3 THEN {-1} ELSE {}
    IN  [key \in {DateKey(z) : z \in days} |->
            RemindersOfDay(n, CHOOSE z \in days : DateKey(z) = key)]

\* The list shown after the callback of doMorningRequest got `data` at
\* corrected time d; `key in data` throws for null, after the list was
\* cleared; the key of an Invalid Date is "NaNNaNNaN", which no map has
RemindersShown(data, d) ==
    IF Typeof(data) # "object" THEN <<"(Error)">>
    ELSE IF data.type = "null" THEN <<>>
    ELSE IF data.type = "array" \/ ~ValidDate THEN <<"(Data missing)">>
    ELSE LET map == ReminderMap(data.val)
             key == ReminderKey(d)
         IN  IF key \in DOMAIN map
             THEN (IF Len(map[key]) = 0 THEN <<"(None)">> ELSE map[key])
             ELSE <<"(Data missing)">>

\* Whether the callback `func` of a request raises on `data`: reading a
\* property of null, or testing `key in null`, is a TypeError; and twoDigits
\* throws on the NaN hours of an Invalid Date (clock.js:200)
CallbackThrows(url, data) ==
    \/ /\ url \in {WeatherUrl, MorningUrl}
       /\ data.type = "null"
    \/ /\ url = WeatherUrl
       /\ data.type \in {"array", "object"}
       /\ ~ValidDate

\* The responses of the endpoints: payloads of the expected type (for the
\* time, the server's clock around the client's, a day ahead of it, and a
\* number beyond the range of Date), of the other types, and bodies that do
\* not parse
Responses(url) ==
    CASE url = TimeUrl
           -> {JsonNumber(now + s) : s \in Skews \cup {MsPerDay}}
                \cup {JsonNumber(MaxTimeValue + 1)}
                \cup {JsonString(1), JsonBoolean, JsonNull, JsonArray, JsonObject(0), Malformed}
      [] url = WallpaperUrl
           -> {JsonString(1), JsonString(2), JsonNumber(now), JsonBoolean, JsonNull,
               JsonArray, JsonObject(0), Malformed}
      [] url = WeatherUrl
           -> {JsonObject(n) : n \in 0 .. 2}
                \cup {JsonNumber(1), JsonString(1), JsonBoolean, JsonNull, JsonArray, Malformed}
      [] url = MorningUrl
           -> {JsonObject(n) : n \in 0 .. 3}
                \cup {JsonNumber(1), JsonString(1), JsonBoolean, JsonNull, JsonArray, Malformed}

\* The responses served where the fetcher is followed through its retries
FetchResponses(url) ==
    CASE url = TimeUrl
           -> {JsonNumber(now + s) : s \in Skews} \cup {JsonString(1), Malformed}
      [] url = WallpaperUrl
           -> {JsonString(1), JsonString(2), JsonNumber(now), Malformed}

\* What the success callbacks write
callbackVars == <<timeOffset, offsetWrites, backgroundImage, weatherText, adminLastWeather,
                  weatherTextIsSet, doneSince, reminders>>

\* The success callback `func` of updateTimeOffset, randomizeWallpaper,
\* doWeatherRequest and doMorningRequest, applied to the parsed payload
OnSuccess(url, data) ==
    CASE url = TimeUrl
           -> /\ timeOffset' = CalibratedOffset(data)
              /\ offsetWrites' = IF Typeof(data) = "number" THEN offsetWrites + 1
                                 ELSE offsetWrites
              /\ UNCHANGED <<backgroundImage, weatherText, adminLastWeather,
                             weatherTextIsSet, doneSince, reminders>>
      [] url = WallpaperUrl
           -> /\ backgroundImage' = WallpaperShown(data)
              /\ UNCHANGED <<timeOffset, offsetWrites, weatherText, adminLastWeather,
                             weatherTextIsSet, doneSince, reminders>>
      [] url = WeatherUrl
           -> /\ IF data.type = "null"
                 THEN UNCHANGED <<weatherText, adminLastWeather, weatherTextIsSet, doneSince>>
                 ELSE IF CallbackThrows(url, data)
                 THEN /\ weatherText' = WeatherShown(data)
                      /\ UNCHANGED <<adminLastWeather, weatherTextIsSet, doneSince>>
                 ELSE /\ weatherText' = WeatherShown(data)
                      /\ adminLastWeather' =
                            IF Typeof(data) = "object"
                            THEN <<TwoDigits(Num(GetHours(CorrectedNow))).text,
                                   TwoDigits(Num(GetMinutes(CorrectedNow))).text>>
                            ELSE adminLastWeather
                      /\ weatherTextIsSet' = TRUE
                      /\ doneSince' = doneSince \cup {f.due : f \in failsafes}
              /\ UNCHANGED <<timeOffset, offsetWrites, backgroundImage, reminders>>
      [] url = MorningUrl
           -> /\ reminders' = RemindersShown(data, CorrectedNow)
              /\ UNCHANGED <<timeOffset, offsetWrites, backgroundImage, weatherText,
                             adminLastWeather, weatherTextIsSet, doneSince>>

\* The XMLHttpRequest of getAndProcessJson(url, timeout, 0, func), sent now
FirstXhr(id, url) ==
    [id |-> id, url |-> url, timeout |-> TimeoutOf(url), retryCount |-> 0, sent |-> now]

\* `fetches` after `change` happened to sequence `id`; a sequence that is not
\* observed (it has no entry) leaves no history
Observe(id, change(_)) ==
    IF id \in DOMAIN fetches THEN [fetches EXCEPT ![id] = change(@)] ELSE fetches

\* An onload handler that, having called func, also arms the back-off retry
XhrLoadRetrying(x, resp) ==
    /\ running = NoCall
    /\ x \in xhrs
    /\ now < x.sent + x.timeout
    /\ resp \in Responses(x.url)
    /\ resp # Malformed
    /\ xhrs' = xhrs \ {x}
    /\ fetches' = Observe(x.id, LAMBDA f :
                     [f EXCEPT !.delivered = Append(@, [retryCount |-> x.retryCount,
                                                       data |-> resp])])
    /\ OnSuccess(x.url, resp)
    /\ retries' = IF ShouldRetry(x.retryCount)
                  THEN retries \cup {[id |-> x.id, url |-> x.url, timeout |-> x.timeout,
                                      retryCount |-> x.retryCount + 1,
                                      due |-> now + BackoffDelay(x.retryCount)]}
                  ELSE retries
    /\ UNCHANGED <<now, timers, running, requested, invoked>>
    /\ UNCHANGED <<zone, boot, failsafes, armed>>
    /\ UNCHANGED <<clockText, morningShown, hides, depth, clicks, started, formatted>>

\* xhr.onload: the response arrived within the timeout
XhrLoad(x, resp) ==
    /\ running = NoCall
    /\ x \in xhrs
    /\ now < x.sent + x.timeout
    /\ resp \in Responses(x.url)
    /\ xhrs' = xhrs \ {x}
    /\ IF resp = Malformed
       THEN /\ fetches' = Observe(x.id, LAMBDA f : [f EXCEPT !.raised = @ + 1])
            /\ UNCHANGED callbackVars
       ELSE /\ fetches' = Observe(x.id, LAMBDA f :
                                [f EXCEPT !.delivered = Append(@, [retryCount |-> x.retryCount,
                                                                  data |-> resp]),
                                          !.raised = IF CallbackThrows(x.url, resp)
                                                     THEN @ + 1 ELSE @])
            /\ OnSuccess(x.url, resp)
    /\ UNCHANGED <<now, timers, running, retries, requested, invoked>>
    /\ UNCHANGED <<zone, boot, failsafes, armed>>
    /\ UNCHANGED <<clockText, morningShown, hides, depth, clicks, started, formatted>>

\* xhr.ontimeout: no response within the timeout
XhrTimeout(x) ==
    /\ running = NoCall
    /\ x \in xhrs
    /\ now >= x.sent + x.timeout
    /\ xhrs' = xhrs \ {x}
    /\ IF ShouldRetry(x.retryCount)
       THEN /\ retries' = retries \cup
                  {[id |-> x.id, url |-> x.url, timeout |-> x.timeout,
                    retryCount |-> x.retryCount + 1,
                    due |-> now + BackoffDelay(x.retryCount)]}
            /\ fetches' = Observe(x.id, LAMBDA f :
                                [f EXCEPT !.delays = Append(@, BackoffDelay(x.retryCount))])
       ELSE UNCHANGED <<retries, fetches>>
    /\ UNCHANGED <<now, timeOffset, timers, running, backgroundImage, requested, invoked>>
    /\ UNCHANGED jobVars
    /\ UNCHANGED pageVars

\* A request whose onerror handler is its ontimeout handler
XhrErrorRetrying(x) ==
    /\ running = NoCall
    /\ x \in xhrs
    /\ now < x.sent + x.timeout
    /\ xhrs' = xhrs \ {x}
    /\ fetches' = Observe(x.id, LAMBDA f : [f EXCEPT !.failed = @ + 1])
    /\ retries' = IF ShouldRetry(x.retryCount)
                  THEN retries \cup {[id |-> x.id, url |-> x.url, timeout |-> x.timeout,
                                      retryCount |-> x.retryCount + 1,
                                      due |-> now + BackoffDelay(x.retryCount)]}
                  ELSE retries
    /\ UNCHANGED <<now, timeOffset, timers, running, backgroundImage, requested, invoked>>
    /\ UNCHANGED jobVars
    /\ UNCHANGED pageVars

\* The connection fails outright: the request has no onerror handler
XhrError(x) ==
    /\ running = NoCall
    /\ x \in xhrs
    /\ now < x.sent + x.timeout
    /\ xhrs' = xhrs \ {x}
    /\ fetches' = Observe(x.id, LAMBDA f : [f EXCEPT !.failed = @ + 1])
    /\ UNCHANGED <<now, timeOffset, timers, running, retries, backgroundImage,
                   requested, invoked>>
    /\ UNCHANGED jobVars
    /\ UNCHANGED pageVars

\* The back-off timer of clock.js:76 fires (at its due time or later)
RetryFire(r) ==
    /\ running = NoCall
    /\ r \in retries
    /\ now >= r.due
    /\ retries' = retries \ {r}
    /\ fetches' = Observe(r.id, LAMBDA f : [f EXCEPT !.attempts = @ + 1])
    /\ SendXhr(r.id, r.url, r.timeout, r.retryCount)
    /\ UNCHANGED <<now, timeOffset, timers, running, backgroundImage, requested, invoked>>
    /\ UNCHANGED jobVars
    /\ UNCHANGED pageVars

----------------------------------------------------------------------------
(* Periodic jobs *)

\* The wallpaper wake time with the test `next.getTime() < now.getTime()`
WallpaperNextStrict(cnow) ==
    LET next == SetMilliseconds(SetSeconds(SetMinutes(SetHours(cnow, WallpaperHour), 0), 0), 0)
    IN  IF next < cnow THEN SetDateToNext(next) ELSE next

\* autoUpdateWallpaper's next wake time, computed at corrected-now `cnow`
WallpaperNext(cnow) ==
    LET next == SetMilliseconds(SetSeconds(SetMinutes(SetHours(cnow, WallpaperHour), 0), 0), 0)
    IN  IF next <= cnow THEN SetDateToNext(next) ELSE next

\* The weather wake time that rolls to the next hour only when the jittered
\* instant is already past
WeatherNextPastOnly(cnow, jitter) ==
    LET next == SetMilliseconds(SetSeconds(SetMinutes(cnow, WeatherMinute), 0), jitter)
    IN  IF next < cnow THEN SetHours(next, GetHours(next) + 1) ELSE next

\* autoUpdateWeather's next wake time, computed at corrected-now `cnow` with
\* Math.random() * 2 * 60 * 1000 truncated to `jitter` by setMilliseconds
WeatherNext(cnow, jitter) ==
    LET next == SetMilliseconds(SetSeconds(SetMinutes(cnow, WeatherMinute), 0), jitter)
    IN  IF next < cnow \/ (GetHours(next) = GetHours(cnow) /\ GetMinutes(cnow) >= WeatherMinute)
        THEN SetHours(next, GetHours(next) + 1)
        ELSE next

\* The values of the jitter: the ends and the middle of [0, 120000)
Jitters == {0, 1, MsPerMinute - 1, MsPerMinute, 2 * MsPerMinute - 1}

\* An autoUpdateWallpaper that computes the next update but leaves arming it
\* to the callback of its request
AutoUpdateWallpaperChained ==
    LET next == WallpaperNext(CorrectedNow)
    IN  /\ xhrs' = xhrs \cup {FirstXhr(Len(fetches) + 1, WallpaperUrl)}
        /\ fetches' = Append(fetches, NewFetch(WallpaperUrl))
        /\ armed' = armed \cup {[func |-> "autoUpdateWallpaper", at |-> CorrectedNow,
                                 jitter |-> 0, next |-> next]}
        /\ running' = NoCall
        /\ UNCHANGED <<now, timeOffset, timers, retries, backgroundImage, requested, invoked,
                       zone, weatherTextIsSet, failsafes>>
        /\ UNCHANGED pageVars

\* autoUpdateWallpaper(): request a wallpaper, then arm the next update
AutoUpdateWallpaper ==
    LET next == WallpaperNext(CorrectedNow)
    IN  /\ xhrs' = xhrs \cup {FirstXhr(Len(fetches) + 1, WallpaperUrl)}
        /\ fetches' = Append(fetches, NewFetch(WallpaperUrl))
        /\ armed' = armed \cup {[func |-> "autoUpdateWallpaper", at |-> CorrectedNow,
                                 jitter |-> 0, next |-> next]}
        /\ ScheduleCall("autoUpdateWallpaper", next, timers)
        /\ UNCHANGED <<now, timeOffset, retries, backgroundImage, requested, invoked,
                       zone, weatherTextIsSet, failsafes>>
        /\ UNCHANGED pageVars

\* autoUpdateWeather(): arm the placeholder, request the weather, then arm the
\* next update
AutoUpdateWeather(jitter) ==
    LET next == WeatherNext(CorrectedNow, jitter)
    IN  /\ weatherTextIsSet' = FALSE
        /\ failsafes' = failsafes \cup {[due |-> now + FailsafeDelay]}
        /\ xhrs' = xhrs \cup {FirstXhr(Len(fetches) + 1, WeatherUrl)}
        /\ fetches' = Append(fetches, NewFetch(WeatherUrl))
        /\ armed' = armed \cup {[func |-> "autoUpdateWeather", at |-> CorrectedNow,
                                 jitter |-> jitter, next |-> next]}
        /\ ScheduleCall("autoUpdateWeather", next, timers)
        /\ UNCHANGED <<now, timeOffset, retries, backgroundImage, requested, invoked, zone>>
        /\ UNCHANGED pageVars

\* Initialization of the clock module calls autoUpdateWallpaper() (clock.js:157)
BootWallpaper ==
    /\ boot # <<>>
    /\ Head(boot) = "autoUpdateWallpaper"
    /\ boot' = Tail(boot)
    /\ AutoUpdateWallpaper

\* Initialization of the weather module calls autoUpdateWeather() (clock.js:229)
BootWeather(jitter) ==
    /\ boot # <<>>
    /\ Head(boot) = "autoUpdateWeather"
    /\ boot' = Tail(boot)
    /\ AutoUpdateWeather(jitter)

\* scheduleNextMorning's wake time, computed at corrected-now `cnow`
MorningNext(cnow) ==
    LET next == SetMilliseconds(SetSeconds(SetMinutes(SetHours(cnow, MorningHour), 0), 0), 0)
    IN  IF next < cnow THEN SetDateToNext(next) ELSE next

\* scheduleNextMorning(): arm the next showMorning
ScheduleNextMorning ==
    LET next == MorningNext(CorrectedNow)
    IN  /\ armed' = armed \cup {[func |-> "showMorning", at |-> CorrectedNow,
                                 jitter |-> 0, next |-> next]}
        /\ ScheduleCall("showMorning", next, timers)

\* clock.js:251, how long the morning pane stays
HideDelay == 5 * MsPerHour

\* showMorning(), begun by scheduleCall: show the pane with the placeholder,
\* request the reminders and arm the next showMorning.  When scheduleCall
\* begins that call at once, this call goes on after it has returned; its
\* setTimeout(hideMorning) is then made together with the innermost call's
\* (hideMorning does the same however often it runs).  Which greeting is
\* shown is not tracked.
ShowMorning ==
    /\ running.func = "showMorning"
    /\ depth < MaxDepth \/ MorningNext(CorrectedNow) > CorrectedNow
    /\ reminders' = <<"(Loading...)">>
    /\ xhrs' = xhrs \cup {FirstXhr(Len(fetches) + 1, MorningUrl)}
    /\ fetches' = Append(fetches, NewFetch(MorningUrl))
    /\ morningShown' = TRUE
    /\ ScheduleNextMorning
    /\ IF running' = NoCall
       THEN /\ hides' = hides \cup {[due |-> now + HideDelay]}
            /\ depth' = 0
       ELSE /\ depth' = depth + 1
            /\ UNCHANGED hides
    /\ UNCHANGED <<now, timeOffset, retries, backgroundImage, requested, invoked>>
    /\ UNCHANGED <<zone, boot, weatherTextIsSet, failsafes>>
    /\ UNCHANGED <<clockText, weatherText, adminLastWeather, clicks, started, offsetWrites,
                   doneSince, formatted>>

\* The client's clock ticks while showMorning calls nest
TickInCall ==
    /\ running.func = "showMorning"
    /\ depth > 0
    /\ MorningNext(CorrectedNow) <= CorrectedNow
    /\ now' = now + 1
    /\ UNCHANGED <<timeOffset, timers, running, xhrs, retries, fetches,
                   backgroundImage, requested, invoked>>
    /\ UNCHANGED jobVars
    /\ UNCHANGED pageVars

\* hideMorning()
HideMorning ==
    /\ morningShown' = FALSE
    /\ reminders' = <<>>

\* The timer of clock.js:251 fires
HideFire(h) ==
    /\ running = NoCall
    /\ h \in hides
    /\ now >= h.due
    /\ hides' = hides \ {h}
    /\ HideMorning
    /\ UNCHANGED <<now, timeOffset, timers, running, xhrs, retries, fetches,
                   backgroundImage, requested, invoked>>
    /\ UNCHANGED jobVars
    /\ UNCHANGED <<clockText, weatherText, adminLastWeather, depth, clicks, started,
                   offsetWrites, doneSince, formatted>>

\* The user clicks on the morning pane (clock.js:307)
HideClick ==
    /\ running = NoCall
    /\ morningShown
    /\ clicks < MaxClicks
    /\ clicks' = clicks + 1
    /\ HideMorning
    /\ UNCHANGED <<now, timeOffset, timers, running, xhrs, retries, fetches,
                   backgroundImage, requested, invoked>>
    /\ UNCHANGED jobVars
    /\ UNCHANGED <<clockText, weatherText, adminLastWeather, hides, depth, started,
                   offsetWrites, doneSince, formatted>>

\* The placeholder timer of clock.js:210 fires
FailsafeFire(f) ==
    /\ running = NoCall
    /\ f \in failsafes
    /\ now >= f.due
    /\ failsafes' = failsafes \ {f}
    /\ weatherText' = IF ~weatherTextIsSet THEN WeatherLoading ELSE weatherText
    /\ UNCHANGED <<now, timeOffset, timers, running, xhrs, retries, fetches,
                   backgroundImage, requested, invoked>>
    /\ UNCHANGED <<zone, boot, weatherTextIsSet, armed>>
    /\ UNCHANGED <<clockText, adminLastWeather, reminders, morningShown, hides, depth,
                   clicks, started, offsetWrites, doneSince, formatted>>

\* A reloadWeather that restarts the weather job instead of only requesting
\* the weather: it arms a wake time of its own
ReloadWeatherRestarting ==
    /\ running = NoCall
    /\ clicks < MaxClicks
    /\ clicks' = clicks + 1
    /\ weatherText' = [sunriseset |-> <<>>, condition |-> <<>>,
                       temperature |-> <<"(Weather loading...)">>]
    /\ xhrs' = xhrs \cup {FirstXhr(Len(fetches) + 1, WeatherUrl)}
    /\ fetches' = Append(fetches, NewFetch(WeatherUrl))
    /\ timers' = timers \cup {[func |-> "autoUpdateWeather",
                                wake |-> WeatherNext(CorrectedNow, 0),
                                due  |-> now + (WeatherNext(CorrectedNow, 0) - CorrectedNow)]}
    /\ UNCHANGED <<now, timeOffset, running, retries, backgroundImage, requested, invoked>>
    /\ UNCHANGED jobVars
    /\ UNCHANGED <<clockText, adminLastWeather, reminders, morningShown, hides, depth,
                   started, offsetWrites, doneSince, formatted>>

\* adminModule.reloadWeather(), an action of the user
ReloadWeather ==
    /\ running = NoCall
    /\ clicks < MaxClicks
    /\ clicks' = clicks + 1
    /\ weatherText' = [sunriseset |-> <<>>, condition |-> <<>>,
                       temperature |-> <<"(Weather loading...)">>]
    /\ xhrs' = xhrs \cup {FirstXhr(Len(fetches) + 1, WeatherUrl)}
    /\ fetches' = Append(fetches, NewFetch(WeatherUrl))
    /\ UNCHANGED <<now, timeOffset, timers, running, retries, backgroundImage,
                   requested, invoked>>
    /\ UNCHANGED jobVars
    /\ UNCHANGED <<clockText, adminLastWeather, reminders, morningShown, hides, depth,
                   started, offsetWrites, doneSince, formatted>>

\* autoUpdateClockDisplay(): show corrected-now, then arm the next second.
\* A throwing twoDigits ends the handler before scheduleCall.
AutoUpdateClockDisplay ==
    LET d == CorrectedNow
    IN  /\ clockText' = ClockDisplay(d)
        /\ IF DisplayThrows(d, 8)
           THEN /\ running' = NoCall
                /\ UNCHANGED timers
           ELSE ScheduleCall("autoUpdateClockDisplay", SetMilliseconds(d, MsPerSecond), timers)
        /\ UNCHANGED <<now, timeOffset, xhrs, retries, fetches, backgroundImage,
                       requested, invoked>>
        /\ UNCHANGED <<zone, weatherTextIsSet, failsafes, armed>>
        /\ UNCHANGED <<weatherText, adminLastWeather, reminders, morningShown, hides, depth,
                       clicks, started, offsetWrites, doneSince, formatted>>

\* updateTimeOffset(): request the server's time
UpdateTimeOffset ==
    /\ xhrs' = xhrs \cup {FirstXhr(Len(fetches) + 1, TimeUrl)}
    /\ fetches' = Append(fetches, NewFetch(TimeUrl))
    /\ UNCHANGED <<now, timeOffset, timers, running, retries, backgroundImage,
                   requested, invoked>>
    /\ UNCHANGED <<zone, weatherTextIsSet, failsafes, armed>>
    /\ UNCHANGED pageVars

\* twoDigits(v), called on a value of the environment's choice
FormatCall(v) ==
    /\ formatted = {}
    /\ formatted' = {[arg |-> v, result |-> TwoDigits(v)]}
    /\ UNCHANGED <<now, timeOffset, timers, running, xhrs, retries, fetches,
                   backgroundImage, requested, invoked>>
    /\ UNCHANGED jobVars
    /\ UNCHANGED <<clockText, weatherText, adminLastWeather, reminders, morningShown, hides,
                   depth, clicks, started, offsetWrites, doneSince>>

\* Initialization of the clock module calls autoUpdateClockDisplay() (clock.js:156)
BootClockDisplay ==
    /\ boot # <<>>
    /\ Head(boot) = "autoUpdateClockDisplay"
    /\ boot' = Tail(boot)
    /\ AutoUpdateClockDisplay

\* ... and updateTimeOffset() (clock.js:158)
BootTimeOffset ==
    /\ boot # <<>>
    /\ Head(boot) = "updateTimeOffset"
    /\ boot' = Tail(boot)
    /\ UpdateTimeOffset

\* Initialization of the morning module calls scheduleNextMorning() (clock.js:308)
BootMorning ==
    /\ boot # <<>>
    /\ Head(boot) = "scheduleNextMorning"
    /\ boot' = Tail(boot)
    /\ ScheduleNextMorning
    /\ UNCHANGED <<now, timeOffset, xhrs, retries, fetches, backgroundImage,
                   requested, invoked>>
    /\ UNCHANGED <<zone, weatherTextIsSet, failsafes>>
    /\ UNCHANGED pageVars

\* The calls of the jobs scheduleCall has begun (clock.js:62)
RunClockDisplay ==
    /\ running.func = "autoUpdateClockDisplay"
    /\ AutoUpdateClockDisplay
    /\ UNCHANGED boot

RunWallpaper ==
    /\ running.func = "autoUpdateWallpaper"
    /\ AutoUpdateWallpaper
    /\ UNCHANGED boot

RunWeather(jitter) ==
    /\ running.func = "autoUpdateWeather"
    /\ AutoUpdateWeather(jitter)
    /\ UNCHANGED boot

----------------------------------------------------------------------------
(* Passage of time *)

\* The instants at which a pending timeout or timer becomes due
Dues == {x.sent + x.timeout : x \in xhrs} \cup {r.due : r \in retries}
        \cup {t.due : t \in timers} \cup {f.due : f \in failsafes} \cup {h.due : h \in hides}

\* Nothing is due: time passes until the next timeout or timer is
AdvanceToDue ==
    /\ running = NoCall
    /\ Dues # {}
    /\ \A d \in Dues : d > now
    /\ now' = CHOOSE d \in Dues : \A e \in Dues : d <= e
    /\ UNCHANGED <<timeOffset, timers, running, xhrs, retries, fetches,
                   backgroundImage, requested, invoked>>
    /\ UNCHANGED jobVars
    /\ UNCHANGED pageVars

\* Something is due and is served late, by less than MaxLate ms
Late ==
    /\ running = NoCall
    /\ \E d \in Dues : d <= now
    /\ \A d \in Dues : d <= now => now - d < MaxLate
    /\ now' = now + 1
    /\ UNCHANGED <<timeOffset, timers, running, xhrs, retries, fetches,
                   backgroundImage, requested, invoked>>
    /\ UNCHANGED jobVars
    /\ UNCHANGED pageVars

----------------------------------------------------------------------------
(* Specifications *)

\* The periodic jobs are left out: none is started, none has run
NoJobs ==
    /\ zone = 0
    /\ boot = <<>>
    /\ weatherTextIsSet = FALSE
    /\ failsafes = {}
    /\ armed = {}

\* The page as it is loaded: the text nodes are empty, the morning pane is
\* hidden and nothing has happened yet
NoPage ==
    /\ clockText = NoClockText
    /\ weatherText = NoWeatherText
    /\ adminLastWeather = <<>>
    /\ reminders = <<>>
    /\ morningShown = FALSE
    /\ hides = {}
    /\ depth = 0
    /\ clicks = 0
    /\ started = now
    /\ offsetWrites = 0
    /\ doneSince = {}
    /\ formatted = {}

\* The page after initialization, as far as the scheduler is concerned: the
\* offset is 0 and the time request of updateTimeOffset (clock.js:158) is in
\* flight; its history is not observed here.
InitSched ==
    /\ now = 0
    /\ timeOffset = 0
    /\ timers = {}
    /\ running = NoCall
    /\ xhrs = {FirstXhr(0, TimeUrl)}
    /\ retries = {}
    /\ fetches = <<>>
    /\ backgroundImage = 0
    /\ requested = {}
    /\ invoked = [cb \in Callbacks |-> 0]
    /\ NoJobs
    /\ NoPage

NextSched ==
    \/ \E cb \in Callbacks, d \in -1 .. MaxDelay : CallScheduleCall(cb, CorrectedNow + d)
    \/ \E t \in timers : SchedTimerFire(t)
    \/ RunCallback
    \/ \E x \in xhrs : \E resp \in FetchResponses(x.url) : XhrLoad(x, resp)
    \/ AdvanceToDue
    \/ Late

SpecSched == InitSched /\ [][NextSched]_vars

\* Timers that are due fire, callbacks that were begun run, and time advances
LiveSched ==
    /\ SpecSched
    /\ WF_vars(\E t \in timers : SchedTimerFire(t))
    /\ WF_vars(RunCallback)
    /\ WF_vars(AdvanceToDue)

\* The page after initialization, as far as the fetcher is concerned: the
\* wallpaper request (clock.js:157) and the time request (clock.js:158) were sent.
InitFetch ==
    /\ now = 0
    /\ timeOffset = 0
    /\ timers = {}
    /\ running = NoCall
    /\ xhrs = {FirstXhr(1, WallpaperUrl), FirstXhr(2, TimeUrl)}
    /\ retries = {}
    /\ fetches = <<NewFetch(WallpaperUrl), NewFetch(TimeUrl)>>
    /\ backgroundImage = 0
    /\ requested = {}
    /\ invoked = [cb \in Callbacks |-> 0]
    /\ NoJobs
    /\ NoPage

NextFetch ==
    \/ \E x \in xhrs : \E resp \in FetchResponses(x.url) : XhrLoad(x, resp)
    \/ \E x \in xhrs : XhrTimeout(x)
    \/ \E x \in xhrs : XhrError(x)
    \/ \E r \in retries : RetryFire(r)
    \/ AdvanceToDue
    \/ Late

SpecFetch == InitFetch /\ [][NextFetch]_vars

\* The client's zones tried: west of, at and east of UTC
Zones == {-5 * MsPerHour, 0, 5 * MsPerHour + 30 * MsPerMinute}

\* The local times of day at which the page is loaded: around the jobs' wake
\* times and around the ends of the minute, the hour and the day
BootHours   == {0, 4, 5, 6, 23}
BootMinutes == {0, 3, 4, 5, 59}
BootSeconds == {0, 59}
BootMillis  == {0, 1, 999}

\* The page is loaded on local day 1..MaxDay at one of these times of day,
\* and its initialization calls the jobs in the order of the script.
InitWake ==
    /\ zone \in Zones
    /\ \E day \in 1 .. MaxDay, h \in BootHours, m \in BootMinutes,
          sec \in BootSeconds, ms \in BootMillis :
            now = MakeLocal(day, h, m, sec, ms)
    /\ timeOffset = 0
    /\ timers = {}
    /\ running = NoCall
    /\ xhrs = {}
    /\ retries = {}
    /\ fetches = <<>>
    /\ backgroundImage = 0
    /\ requested = {}
    /\ invoked = [cb \in Callbacks |-> 0]
    /\ boot = <<"autoUpdateWallpaper", "autoUpdateWeather">>
    /\ weatherTextIsSet = FALSE
    /\ failsafes = {}
    /\ armed = {}
    /\ NoPage

NextWake ==
    \/ BootWallpaper
    \/ \E jitter \in Jitters : BootWeather(jitter)

SpecWake == InitWake /\ [][NextWake]_vars

\* The local times of day at which the whole page is loaded: one second
\* before the wake time of the wallpaper, of the morning pane and of the
\* weather, and exactly at the morning pane's
PageBoots == {<<WallpaperHour - 1, 59, 59>>, <<MorningHour - 1, 59, 59>>,
              <<MorningHour, 0, 0>>, <<MorningHour + 3, WeatherMinute - 1, 59>>}

\* The zone of the client whose whole page is followed: east of UTC, not by
\* whole hours
PageZones == {5 * MsPerHour + 30 * MsPerMinute}

\* The jitters drawn there: the ends of [0, 120000)
PageJitters == {0, 2 * MsPerMinute - 1}

\* The responses served there: the server's clock behind and ahead of the
\* client's, and one payload of each kind the callbacks tell apart
PageResponses(url) ==
    CASE url = TimeUrl
           -> {JsonNumber(now - (LocalServerThreshold + 1)),
               JsonNumber(now + (LocalServerThreshold + 1)), JsonString(1)}
      [] url = WallpaperUrl
           -> {JsonString(1), JsonNumber(now)}
      [] url = WeatherUrl
           -> {JsonObject(1), JsonNull, JsonString(1)}
      [] url = MorningUrl
           -> {JsonObject(1), JsonString(1)}

\* The initialization calls of the script, module by module.  The modules
\* share the offset and the event loop and nothing else, so the page is
\* followed one module at a time, each with the calibration of the offset.
PageModules == {<<"autoUpdateClockDisplay", "autoUpdateWallpaper", "updateTimeOffset">>,
                <<"updateTimeOffset", "autoUpdateWeather">>,
                <<"updateTimeOffset", "scheduleNextMorning">>}

\* The page is loaded: the script's initialization calls are to be made
InitPage ==
    /\ zone \in PageZones
    /\ \E t \in PageBoots : now = MakeLocal(1, t[1], t[2], t[3], 0)
    /\ timeOffset = 0
    /\ timers = {}
    /\ running = NoCall
    /\ xhrs = {}
    /\ retries = {}
    /\ fetches = <<>>
    /\ backgroundImage = 0
    /\ requested = {}
    /\ invoked = [cb \in Callbacks |-> 0]
    /\ boot \in PageModules
    /\ weatherTextIsSet = FALSE
    /\ failsafes = {}
    /\ armed = {}
    /\ NoPage

\* Time passes as long as the page is followed: for MaxSeconds seconds after
\* it was loaded and, when no request and no other timeout is pending then,
\* until the morning pane's timer of clock.js:251
PageAdvance ==
    /\ AdvanceToDue
    /\ \/ now' <= started + MaxSeconds * MsPerSecond
       \/ /\ xhrs = {} /\ retries = {} /\ failsafes = {}
          /\ now' \in {h.due : h \in hides}

\* The script runs to its end before the event loop serves anything; a call
\* scheduleCall has begun runs before anything else.  Timers are served when
\* they come due (the offset's calibration makes them early or late by the
\* corrected clock).
NextPage ==
    \/ BootClockDisplay
    \/ BootWallpaper
    \/ BootTimeOffset
    \/ \E jitter \in PageJitters : BootWeather(jitter)
    \/ BootMorning
    \/ ShowMorning
    \/ TickInCall
    \/ RunClockDisplay
    \/ RunWallpaper
    \/ \E jitter \in PageJitters : RunWeather(jitter)
    \/ /\ boot = <<>>
       /\ \/ \E t \in timers : SchedTimerFire(t)
          \/ \E x \in xhrs : \E resp \in PageResponses(x.url) : XhrLoad(x, resp)
          \/ \E x \in xhrs : XhrTimeout(x)
          \/ \E x \in xhrs : XhrError(x)
          \/ \E r \in retries : RetryFire(r)
          \/ \E f \in failsafes : FailsafeFire(f)
          \/ \E h \in hides : HideFire(h)
          \/ HideClick
          \/ ReloadWeather
          \/ PageAdvance

SpecPage == InitPage /\ [][NextPage]_vars

\* The jobs that fetch at every cycle, each followed together with the morning
\* job, whose scheduled call is pending all the while
CycleModules == {<<"autoUpdateWallpaper", "scheduleNextMorning">>,
                 <<"autoUpdateWeather", "scheduleNextMorning">>}

\* The page is loaded at 04:50:00.000 local: the job's request can run out of
\* attempts before the job's next wake time (05:00:00.000, and 05:04:00.000 +
\* jitter)
InitCycle ==
    /\ zone \in PageZones
    /\ now = MakeLocal(1, WallpaperHour - 1, 50, 0, 0)
    /\ timeOffset = 0
    /\ timers = {}
    /\ running = NoCall
    /\ xhrs = {}
    /\ retries = {}
    /\ fetches = <<>>
    /\ backgroundImage = 0
    /\ requested = {}
    /\ invoked = [cb \in Callbacks |-> 0]
    /\ boot \in CycleModules
    /\ weatherTextIsSet = FALSE
    /\ failsafes = {}
    /\ armed = {}
    /\ NoPage

\* Time passes for MaxMinutes minutes after the page was loaded
CycleAdvance ==
    /\ AdvanceToDue
    /\ now' <= started + MaxMinutes * MsPerMinute

NextCycle ==
    \/ BootWallpaper
    \/ \E jitter \in PageJitters : BootWeather(jitter)
    \/ BootMorning
    \/ RunWallpaper
    \/ \E jitter \in PageJitters : RunWeather(jitter)
    \/ /\ boot = <<>>
       /\ \/ \E t \in timers : SchedTimerFire(t)
          \/ \E x \in xhrs : \E resp \in PageResponses(x.url) : XhrLoad(x, resp)
          \/ \E x \in xhrs : XhrTimeout(x)
          \/ \E x \in xhrs : XhrError(x)
          \/ \E r \in retries : RetryFire(r)
          \/ \E f \in failsafes : FailsafeFire(f)
          \/ CycleAdvance

SpecCycle == InitCycle /\ [][NextCycle]_vars

\* The event loop serves what is due, begun calls run, and time advances;
\* whether and when a response arrives is up to the network
LiveCycle ==
    /\ SpecCycle
    /\ WF_vars(\E t \in timers : SchedTimerFire(t))
    /\ WF_vars(RunWallpaper)
    /\ WF_vars(\E jitter \in PageJitters : RunWeather(jitter))
    /\ WF_vars(\E x \in xhrs : XhrTimeout(x))
    /\ WF_vars(\E r \in retries : RetryFire(r))
    /\ WF_vars(\E f \in failsafes : FailsafeFire(f))
    /\ WF_vars(CycleAdvance)

\* The time endpoint serving, besides the server's clock behind and ahead of
\* the client's, a number beyond the range of Date (a clock counted in other
\* units than milliseconds)
RangeResponses(url) ==
    CASE url = TimeUrl
           -> {JsonNumber(now - (LocalServerThreshold + 1)),
               JsonNumber(now + (LocalServerThreshold + 1)),
               JsonNumber(MaxTimeValue + 1)}
      [] url = WallpaperUrl
           -> {JsonString(1)}

\* The page is loaded at 04:59:59.000 local, as far as the clock module is
\* concerned: the ticker and the wallpaper job are next due a second later
InitRange ==
    /\ zone \in PageZones
    /\ now = MakeLocal(1, WallpaperHour - 1, 59, 59, 0)
    /\ timeOffset = 0
    /\ timers = {}
    /\ running = NoCall
    /\ xhrs = {}
    /\ retries = {}
    /\ fetches = <<>>
    /\ backgroundImage = 0
    /\ requested = {}
    /\ invoked = [cb \in Callbacks |-> 0]
    /\ boot = <<"autoUpdateClockDisplay", "autoUpdateWallpaper", "updateTimeOffset">>
    /\ weatherTextIsSet = FALSE
    /\ failsafes = {}
    /\ armed = {}
    /\ NoPage

NextRange ==
    \/ BootClockDisplay
    \/ BootWallpaper
    \/ BootTimeOffset
    \/ RunClockDisplay
    \/ RunWallpaper
    \/ /\ boot = <<>>
       /\ \/ \E t \in timers : SchedTimerFire(t)
          \/ \E x \in xhrs : \E resp \in RangeResponses(x.url) : XhrLoad(x, resp)
          \/ \E x \in xhrs : XhrTimeout(x)
          \/ \E r \in retries : RetryFire(r)
          \/ PageAdvance

SpecRange == InitRange /\ [][NextRange]_vars

\* The event loop serves what is due, begun calls run, and time advances;
\* whether and when a response arrives is up to the network
LiveRange ==
    /\ SpecRange
    /\ WF_vars(\E t \in timers : SchedTimerFire(t))
    /\ WF_vars(RunClockDisplay)
    /\ WF_vars(RunWallpaper)
    /\ WF_vars(\E x \in xhrs : XhrTimeout(x))
    /\ WF_vars(\E r \in retries : RetryFire(r))
    /\ WF_vars(PageAdvance)

\* The values twoDigits is tried on, in tenths: the integers and the halves
\* from below 0 to beyond 99, and values that are not numbers
FormatInputs ==
    {[type |-> "number", tenths |-> 5 * k] : k \in -2 * MaxExcess .. 2 * (99 + MaxExcess) + 1}
      \cup {[type |-> "string", tenths |-> 70], [type |-> "undefined", tenths |-> 0]}

\* The local times of day at which the clock display is first shown: one- and
\* two-digit hours, minutes and seconds
FormatHours   == {0, 9, 10, 23}
FormatMinutes == {0, 59}
FormatSeconds == {0, 9, 59}

\* The page is loaded, as far as the clock display is concerned
InitFormat ==
    /\ zone \in Zones
    /\ \E day \in LoadDays, h \in FormatHours, m \in FormatMinutes, sec \in FormatSeconds :
          now = MakeLocal(day, h, m, sec, 0)
    /\ timeOffset = 0
    /\ timers = {}
    /\ running = NoCall
    /\ xhrs = {}
    /\ retries = {}
    /\ fetches = <<>>
    /\ backgroundImage = 0
    /\ requested = {}
    /\ invoked = [cb \in Callbacks |-> 0]
    /\ boot = <<"autoUpdateClockDisplay">>
    /\ weatherTextIsSet = FALSE
    /\ failsafes = {}
    /\ armed = {}
    /\ NoPage

NextFormat ==
    \/ BootClockDisplay
    \/ boot = <<>> /\ \E v \in FormatInputs : FormatCall(v)

SpecFormat == InitFormat /\ [][NextFormat]_vars

\* The page is loaded at 07:00:00.000 sharp, so that the morning pane is
\* shown and its request sent during initialization
InitLoad ==
    /\ zone \in PageZones
    /\ \E day \in LoadDays : now = MakeLocal(day, MorningHour, 0, 0, 0)
    /\ timeOffset = 0
    /\ timers = {}
    /\ running = NoCall
    /\ xhrs = {}
    /\ retries = {}
    /\ fetches = <<>>
    /\ backgroundImage = 0
    /\ requested = {}
    /\ invoked = [cb \in Callbacks |-> 0]
    /\ boot \in PageModules
    /\ weatherTextIsSet = FALSE
    /\ failsafes = {}
    /\ armed = {}
    /\ NoPage

\* The responses, of every kind, arrive before anything comes due
NextLoad ==
    \/ BootClockDisplay
    \/ BootWallpaper
    \/ BootTimeOffset
    \/ \E jitter \in PageJitters : BootWeather(jitter)
    \/ BootMorning
    \/ ShowMorning
    \/ TickInCall
    \/ /\ boot = <<>>
       /\ \/ \E x \in xhrs : \E resp \in Responses(x.url) : XhrLoad(x, resp)
          \/ HideClick
          \/ ReloadWeather

SpecLoad == InitLoad /\ [][NextLoad]_vars

----------------------------------------------------------------------------
(* Claims about scheduleCall *)

\* A timer of scheduleCall is pending for callback `cb`
Pending(cb) == \E t \in timers : t.func = cb

\* C1: scheduleCall never begins func() while corrected-now < wake, whatever
\* the timers' lateness and the calibration did in between; and a timer that
\* fires while corrected-now < wake re-arms for the remaining delay instead.
C1_NeverBeforeWake ==
    /\ [](running # NoCall => running.wake <= CorrectedNow)
    /\ [][\A t \in timers :
            (t \notin timers' /\ CorrectedNow < t.wake)
            => /\ running' = NoCall
               /\ [func |-> t.func, wake |-> t.wake,
                   due |-> now + (t.wake - CorrectedNow)] \in timers']_vars

\* C1 witness: a callback requested before the calibration, with a wake time in
\* its future, is invoked after the offset was moved backwards
C1_Witness ==
    /\ running.func \in Callbacks
    /\ timeOffset < 0
    /\ \E r \in requested : r.func = running.func /\ r.early

\* C2: a scheduleCall made with corrected-now < wake leads to func being
\* invoked, and func is invoked at most once for it, ever.
C2_EventuallyExactlyOnce ==
    \A cb \in Callbacks :
        /\ [](invoked[cb] <= 1)
        /\ ((\E r \in requested : r.func = cb /\ r.at < r.wake) ~> (invoked[cb] = 1))

\* C2 witness: a callback whose wait was lengthened by a backward calibration
\* (its timer fired while corrected-now < wake) has been invoked once
C2_Witness ==
    /\ running = NoCall
    /\ \E r \in requested : r.early /\ invoked[r.func] = 1

\* C3: scheduleCall(func, wake) called with corrected-now >= wake arms no timer
\* and begins func() at once; nothing else happens before func's body has run,
\* and func runs exactly once for that call.
C3_ImmediateCall ==
    /\ [][\A r \in requested' \ requested :
            r.wake <= r.at
            => /\ timers' = timers
               /\ running' = [func |-> r.func, wake |-> r.wake]]_vars
    /\ [][running # NoCall
            => /\ invoked' = [invoked EXCEPT ![running.func] = @ + 1]
               /\ running' = NoCall
               /\ timers' = timers
               /\ now' = now]_vars
    /\ [](\A r \in requested :
            r.wake <= r.at
            => /\ ~Pending(r.func)
               /\ invoked[r.func] = IF running.func = r.func THEN 0 ELSE 1)

\* C3 witness: a call made exactly at its wake time has run, with no timer armed
C3_Witness ==
    \E r \in requested :
        /\ r.wake = r.at
        /\ invoked[r.func] = 1
        /\ timers = {}

----------------------------------------------------------------------------
(* Claims about getAndProcessJson *)

\* Sequence `id` has no request in flight and no retry pending
Inactive(id) ==
    /\ \A x \in xhrs : x.id # id
    /\ \A r \in retries : r.id # id

\* Every attempt of sequence `id` so far has timed out or is still in flight
OnlyTimeouts(id) ==
    /\ fetches[id].delivered = <<>>
    /\ fetches[id].raised = 0
    /\ fetches[id].failed = 0

\* C4: a sequence all of whose attempts time out makes exactly 10 attempts:
\* no 11th is ever sent or scheduled, func is never called, nothing is raised,
\* and after the 10th timeout nothing of the sequence is pending.
C4_TenTimeoutsThenSilence ==
    /\ [](\A id \in DOMAIN fetches :
            /\ fetches[id].attempts <= 10
            /\ \A r \in retries : r.id = id => r.retryCount <= 9
            /\ \A x \in xhrs : x.id = id => x.retryCount = fetches[id].attempts - 1
            /\ (OnlyTimeouts(id) /\ Inactive(id))
                  => /\ fetches[id].attempts = 10
                     /\ Len(fetches[id].delays) = 9
            /\ (OnlyTimeouts(id) /\ fetches[id].attempts = 10
                   /\ Len(fetches[id].delays) = 9)
                  => \A r \in retries : r.id # id)
    /\ [][\A x \in xhrs \ xhrs' :
            now >= x.sent + x.timeout
            => /\ fetches'[x.id].delivered = fetches[x.id].delivered
               /\ fetches'[x.id].raised = fetches[x.id].raised
               /\ timeOffset' = timeOffset
               /\ backgroundImage' = backgroundImage]_vars

\* C4 witness: a sequence has given up after 10 timeouts
C4_Witness ==
    \E id \in DOMAIN fetches :
        OnlyTimeouts(id) /\ Inactive(id) /\ fetches[id].attempts = 10

\* C5: when the first 9 attempts time out and the 10th succeeds, 10 attempts
\* were made, the delays armed were 1s, 2s, 4s, ..., 256s in that order, and
\* func was called once, with the 10th attempt's payload (a wallpaper name
\* delivered that way is the wallpaper shown).
C5_NineTimeoutsThenSuccess ==
    \A id \in DOMAIN fetches :
        (fetches[id].delivered # <<>> /\ fetches[id].delivered[1].retryCount = 9)
        => /\ fetches[id].attempts = 10
           /\ fetches[id].delays =
                 <<1000, 2000, 4000, 8000, 16000, 32000, 64000, 128000, 256000>>
           /\ Len(fetches[id].delivered) = 1
           /\ (fetches[id].url = WallpaperUrl
                 /\ fetches[id].delivered[1].data.type = "string")
              => backgroundImage = fetches[id].delivered[1].data.val

\* C5 witness: the wallpaper request succeeded with a name at its 10th attempt
C5_Witness ==
    \E id \in DOMAIN fetches :
        /\ fetches[id].url = WallpaperUrl
        /\ fetches[id].delivered # <<>>
        /\ fetches[id].delivered[1].retryCount = 9
        /\ fetches[id].delivered[1].data.type = "string"

\* C6: a successful response on any attempt calls func once and ends the
\* sequence: no request or retry of it is pending afterwards, no further
\* attempt is made, and func is called at most once per sequence.
C6_SuccessEndsSequence ==
    \A id \in DOMAIN fetches :
        /\ Len(fetches[id].delivered) <= 1
        /\ fetches[id].delivered # <<>>
              => /\ Inactive(id)
                 /\ fetches[id].attempts = fetches[id].delivered[1].retryCount + 1
                 /\ fetches[id].delivered[1].retryCount \in 0 .. 9

\* C6 witness: a sequence succeeded at an attempt that followed some retries
C6_Witness ==
    \E id \in DOMAIN fetches :
        /\ fetches[id].delivered # <<>>
        /\ fetches[id].delivered[1].retryCount = 4
        /\ Inactive(id)

\* C7: a connection failure arms no retry, calls no func and changes nothing
\* but the failed request's disappearance; the sequence is abandoned; and a
\* retry is armed only by the timeout of the attempt before it.
C7_FailureAbandons ==
    /\ [][\A id \in DOMAIN fetches :
            fetches'[id].failed # fetches[id].failed
            => /\ retries' = retries
               /\ timers' = timers
               /\ timeOffset' = timeOffset
               /\ backgroundImage' = backgroundImage
               /\ fetches'[id].delivered = fetches[id].delivered
               /\ fetches'[id].attempts = fetches[id].attempts
               /\ xhrs' \subseteq xhrs
               /\ Cardinality(xhrs') = Cardinality(xhrs) - 1]_vars
    /\ [](\A id \in DOMAIN fetches :
            fetches[id].failed > 0
            => /\ Inactive(id)
               /\ fetches[id].failed = 1
               /\ fetches[id].delivered = <<>>)
    /\ [][\A r \in retries' \ retries :
            \E x \in xhrs \ xhrs' :
                /\ x.id = r.id
                /\ r.retryCount = x.retryCount + 1
                /\ now >= x.sent + x.timeout]_vars

\* C7 witness: a sequence was abandoned on a connection failure of a retry
C7_Witness ==
    \E id \in DOMAIN fetches :
        fetches[id].failed = 1 /\ fetches[id].attempts = 3 /\ Inactive(id)

\* The payload func was called with in this step, for the time request
TimeDelivery(id) ==
    /\ fetches[id].url = TimeUrl
    /\ Len(fetches'[id].delivered) = Len(fetches[id].delivered) + 1

\* C8: when the time endpoint delivers a number `server` while the local clock
\* reads `now`, the offset afterwards is 0 if |server - now| < 50 and
\* server - now otherwise, and corrected-now is the local clock plus it; a
\* payload that is not a number leaves the offset as it was.
C8_Calibration ==
    [][\A id \in DOMAIN fetches :
         TimeDelivery(id)
         => LET data   == fetches'[id].delivered[Len(fetches'[id].delivered)].data
                server == data.val
            IN  /\ (data.type = "number" /\ server - now > -50 /\ server - now < 50)
                      => timeOffset' = 0
                /\ (data.type = "number" /\ (server - now <= -50 \/ server - now >= 50))
                      => timeOffset' = server - now
                /\ data.type # "number" => timeOffset' = timeOffset
                /\ CorrectedNow' = now + timeOffset']_vars

\* C8 witness: the time endpoint has just delivered a server time exactly 50 ms
\* behind the local clock, and the offset is -50
C8_Witness ==
    \E id \in DOMAIN fetches :
        /\ fetches[id].url = TimeUrl
        /\ fetches[id].delivered # <<>>
        /\ fetches[id].delivered[1].data = JsonNumber(now - 50)
        /\ timeOffset = -50

----------------------------------------------------------------------------
(* Claims about the jobs' wake times *)

\* C9: the wallpaper job's target is the earliest instant with local time of
\* day 05:00:00.000 strictly later than corrected-now: the same day before
\* 05:00:00.000 (04:59:00.000 -> that day's 05:00), the next day from
\* 05:00:00.000 on (05:00:00.000 and 05:00:00.001 -> the next day's 05:00);
\* and that is the wake time the job arms.
C9_WallpaperWake ==
    \A a \in armed :
        a.func = "autoUpdateWallpaper"
        => LET local == a.at + zone
               day   == local \div 86400000
               five  == day * 86400000 + 5 * 3600000
           IN  /\ a.next > a.at
               /\ (a.next + zone) % 86400000 = 5 * 3600000
               /\ a.next - a.at <= 86400000
               /\ local < five => a.next + zone = five
               /\ local >= five => a.next + zone = five + 86400000
               /\ local = five - 60000 => a.next = a.at + 60000
               /\ local = five + 1 => a.next = a.at + 86400000 - 1
               /\ \E t \in timers : t.func = a.func /\ t.wake = a.next

\* C9 witness: the job ran at 05:00:00.000 sharp and armed the next day's 05:00
C9_Witness ==
    \E a \in armed :
        /\ a.func = "autoUpdateWallpaper"
        /\ (a.at + zone) % 86400000 = 5 * 3600000
        /\ a.next = a.at + 86400000

\* C10: with jitter j in [0, 120000), the weather job's target is HH:04:00.000 + j
\* of corrected-now's hour HH when its minute is < 4 and (HH+1):04:00.000 + j
\* when its minute is >= 4, even if HH:04:00.000 + j is still ahead; the target
\* is strictly later than corrected-now, lies in minute 4 or 5 of its hour, and
\* is the wake time the job arms.
C10_WeatherWake ==
    \A a \in armed :
        a.func = "autoUpdateWeather"
        => LET local  == a.at + zone
               hour   == (local \div 3600000) * 3600000
               minute == (local % 3600000) \div 60000
           IN  /\ a.jitter \in 0 .. 119999
               /\ minute < 4 => a.next + zone = hour + 4 * 60000 + a.jitter
               /\ minute >= 4 => a.next + zone = hour + 3600000 + 4 * 60000 + a.jitter
               /\ a.next > a.at
               /\ ((a.next + zone) % 3600000) \div 60000 \in {4, 5}
               /\ \E t \in timers : t.func = a.func /\ t.wake = a.next

\* C10 witness: the job ran in minute 4, before this hour's jittered instant,
\* and armed the next hour's
C10_Witness ==
    \E a \in armed :
        /\ a.func = "autoUpdateWeather"
        /\ ((a.at + zone) % 3600000) \div 60000 = 4
        /\ a.at < ((a.at + zone) \div 3600000) * 3600000 + 4 * 60000 + a.jitter - zone
        /\ a.next - a.at > 3600000

----------------------------------------------------------------------------
(* Claims about the morning pane *)

\* C11: the morning job's target is today's 07:00:00.000 local when that is
\* still ahead of corrected-now, and tomorrow's 07:00:00.000 when it is at or
\* before corrected-now, corrected-now being exactly 07:00:00.000 included.
C11_MorningWake ==
    \A a \in armed :
        a.func = "showMorning"
        => LET local == a.at + zone
               day   == local \div 86400000
               seven == day * 86400000 + 7 * 3600000
           IN  /\ local < seven => a.next + zone = seven
               /\ local >= seven => a.next + zone = seven + 86400000

\* The payload the callback of a reminders request is given in this step
MorningDelivery(id) ==
    /\ id \in DOMAIN fetches
    /\ fetches[id].url = MorningUrl
    /\ Len(fetches'[id].delivered) = Len(fetches[id].delivered) + 1

\* C12: when a reminders request succeeds with a map, K being the YYYYMMDD key
\* of the corrected date at that moment, the list shown afterwards is exactly
\* the messages mapped to K, in their order, if K is present with a non-empty
\* sequence; the single entry "(None)" if K is present with an empty sequence;
\* the single entry "(Data missing)" if K is absent.  "(Loading...)" is gone.
C12_ReminderLookup ==
    [][\A id \in DOMAIN fetches :
         MorningDelivery(id)
         => LET data == fetches'[id].delivered[Len(fetches'[id].delivered)].data
                map  == ReminderMap(data.val)
                K    == DateKey((now + timeOffset + zone) \div 86400000)
            IN  data.type = "object" /\ ValidDate
                => /\ Len(K) = 8
                   /\ K \in DOMAIN map /\ map[K] # <<>> => reminders' = map[K]
                   /\ K \in DOMAIN map /\ map[K] = <<>> => reminders' = <<"(None)">>
                   /\ K \notin DOMAIN map => reminders' = <<"(Data missing)">>
      ]_vars

\* C12 witness: the offset was calibrated a day ahead, and a reminders request
\* then succeeded with the map that has messages for every day: the messages
\* of the corrected date are shown, not those of the client's date
C12_Witness ==
    /\ timeOffset = MsPerDay
    /\ \E id \in DOMAIN fetches :
          /\ fetches[id].url = MorningUrl
          /\ fetches[id].delivered # <<>>
          /\ fetches[id].delivered[1].data = JsonObject(1)
    /\ reminders = RemindersOfDay(1, (now + timeOffset + zone) \div 86400000)
    /\ reminders # RemindersOfDay(1, (now + zone) \div 86400000)

----------------------------------------------------------------------------
(* Claims about the display *)

\* C13: for every integer n with 0 <= n < 100, twoDigits(n) returns exactly two
\* digits whose decimal value is n; for every n outside [0, 100), every
\* non-integral n and every value that is not a number it throws; and every
\* call the clock display makes (seconds, hours, minutes, UTC day of month,
\* UTC hours and minutes, month, day of month) is within the accepted range,
\* so that the display is shown and its next update armed.
C13_TwoDigits ==
    /\ \A f \in formatted :
          LET v  == f.arg
              ok == v.type = "number" /\ v.tenths % 10 = 0 /\ 0 <= v.tenths /\ v.tenths < 1000
          IN  /\ ok => /\ ~f.result.threw
                       /\ Len(f.result.text) = 2
                       /\ \A i \in 1 .. 2 : f.result.text[i] \in 0 .. 9
                       /\ 10 * f.result.text[1] + f.result.text[2] = v.tenths \div 10
              /\ ~ok => f.result.threw
    /\ \A i \in 1 .. 8 : DisplayArgs(CorrectedNow)[i] \in 0 .. 99
    /\ boot = <<>>
       => /\ clockText.seconds # <<>> /\ clockText.time # <<>>
          /\ clockText.utc # <<>> /\ clockText.date # <<>>
          /\ \A part \in {clockText.seconds[1], clockText.time[1], clockText.time[2],
                          clockText.utc[1], clockText.utc[3], clockText.utc[4],
                          clockText.date[2], clockText.date[3]} : Len(part) = 2
          /\ \E t \in timers : t.func = "autoUpdateClockDisplay"

\* C13 witness: twoDigits(7) returned "07" after the display was shown at a
\* time with a one-digit hour
C13_Witness ==
    /\ boot = <<>>
    /\ clockText.time[1] = <<0, 9>>
    /\ \E f \in formatted : f.arg = Num(7) /\ f.result.text = <<0, 7>>

----------------------------------------------------------------------------
(* Claims about the recurring jobs *)

\* The three periodic jobs
PeriodicJobs == {"autoUpdateWallpaper", "autoUpdateWeather", "showMorning"}

\* The targets job `func` computed are ahead of corrected-now and grow from
\* cycle to cycle
MovesForward(func) ==
    \A a \in armed :
        a.func = func
        => /\ a.next > a.at
           /\ \A b \in armed :
                 b.func = func /\ b.at > a.at => b.at >= a.next /\ b.next > a.next

\* C14: whenever the wallpaper, the weather or the morning job computes its
\* next wake instant, the target is strictly later than corrected-now and
\* strictly later than the previous cycle's target: no job schedules itself in
\* the past or for the same instant twice, also when it runs exactly at its
\* own target instant.
C14_TargetsMoveForward == \A func \in PeriodicJobs : MovesForward(func)

\* The four recurring jobs
RecurringJobs == PeriodicJobs \cup {"autoUpdateClockDisplay"}

\* The scheduled calls of job `func` that are outstanding: its pending timers
\* of scheduleCall, and the call scheduleCall has begun
Outstanding(func) ==
    Cardinality({t \in timers : t.func = func}) + (IF running.func = func THEN 1 ELSE 0)

\* C15: each recurring job (seconds ticker, wallpaper, weather, morning) has at
\* most one outstanding scheduled call at a time, and a job is never begun
\* while a timer of its own is pending: through the re-arming of timers, the
\* calibration of the offset and the user's actions (reloadWeather, hiding the
\* morning pane).
C15_OneOutstandingCall == \A func \in RecurringJobs : Outstanding(func) <= 1

\* C15 witness: after the offset was calibrated and the user reloaded the
\* weather, the weather job has run a second time and its one timer is pending
C15_Witness ==
    /\ offsetWrites = 1
    /\ timeOffset # 0
    /\ clicks = 1
    /\ \E a, b \in armed : a.func = "autoUpdateWeather" /\ b.func = a.func /\ b.at > a.at
    /\ Outstanding("autoUpdateWeather") = 1
    /\ running = NoCall

\* The jobs that fetch at every cycle, and what they fetch
CycleJobs == {"autoUpdateWallpaper", "autoUpdateWeather"}
UrlOf(func) == IF func = "autoUpdateWallpaper" THEN WallpaperUrl ELSE WeatherUrl

\* Job `func` has run at least n times
Ran(func, n) == Cardinality({a \in armed : a.func = func}) >= n

\* C16: a fetch that fails for good does not stop its job.  In every cycle of
\* the wallpaper and of the weather job the request is sent and the next
\* cycle armed in the same step; no event of a fetch (response, timeout,
\* connection failure, retry) touches a scheduled call, so the job's call and
\* the other job's call stay pending whether the fetch succeeds, runs out of
\* its 10 attempts, fails to connect or delivers a payload of the wrong
\* shape; and the job's next cycle takes place.
C16_FetchDoesNotStopJob ==
    /\ [][\A func \in CycleJobs :
            (\E a \in armed' \ armed : a.func = func)
            => /\ \E x \in xhrs' \ xhrs : x.url = UrlOf(func) /\ x.retryCount = 0
               /\ Outstanding(func)' = 1
       ]_vars
    /\ [][(xhrs' # xhrs \/ retries' # retries) /\ armed' = armed
            => timers' = timers /\ running' = running
       ]_vars
    /\ [](boot = <<>>
            => /\ Outstanding("showMorning") = 1
               /\ \A func \in CycleJobs : Ran(func, 1) => Outstanding(func) = 1)
    /\ \A func \in CycleJobs : Ran(func, 1) ~> Ran(func, 2)

\* C16 witness: the first request of the weather job ran out of its 10
\* attempts, and the job has run again, the morning job's call still pending
C16_Witness ==
    /\ fetches # <<>>
    /\ fetches[1].url = WeatherUrl
    /\ fetches[1].attempts = 10
    /\ OnlyTimeouts(1)
    /\ Inactive(1)
    /\ Ran("autoUpdateWeather", 2)
    /\ Outstanding("autoUpdateWeather") = 1
    /\ Outstanding("showMorning") = 1

\* C17: the placeholder timer of a weather cycle writes "(Weather loading...)"
\* if and only if no weather callback has completed since that cycle started;
\* once a callback has written the weather or the data-error text in the
\* cycle, the timer leaves the three weather texts as they are, in every
\* order of responses, timers and reload clicks.
C17_FailsafeOnlyBeforeCallback ==
    [][\A f \in failsafes \ failsafes' :
          /\ f.due \notin doneSince => weatherText' = WeatherLoading
          /\ f.due \in doneSince => weatherText' = weatherText
      ]_vars

\* The request sequences of updateTimeOffset
TimeSequences == {i \in DOMAIN fetches : fetches[i].url = TimeUrl}

\* How many numbers sequence `id` has handed to its callback
NumbersDelivered(id) ==
    Cardinality({k \in DOMAIN fetches[id].delivered :
                    Typeof(fetches[id].delivered[k].data) = "number"})

\* C18 as stated: the offset is written exactly once per run, so a run whose
\* time request is over has written it once.
C18_OffsetWrittenExactlyOnce ==
    \A i \in TimeSequences : Inactive(i) => offsetWrites = 1

\* C18, amended: the offset is written at most once per run, and only by
\* the callback of the time request receiving a number.  No other step (a
\* scheduleCall step, a request, timeout, retry or response of any endpoint,
\* a cycle of a job, a click) changes it; a payload that is not a number
\* leaves it unchanged; it is written once if and only if the time request
\* delivered a number, retries or not, and stays 0 otherwise.
C18_OffsetWrittenAtMostOnce ==
    /\ [][timeOffset' # timeOffset \/ offsetWrites' # offsetWrites
            => /\ offsetWrites' = offsetWrites + 1
               /\ \E x \in xhrs \ xhrs' :
                     /\ x.url = TimeUrl
                     /\ NumbersDelivered(x.id)' = NumbersDelivered(x.id) + 1
       ]_vars
    /\ [](offsetWrites <= 1)
    /\ [](offsetWrites = 0 => timeOffset = 0)
    /\ [](\A i \in TimeSequences : offsetWrites = NumbersDelivered(i))

\* C18 witness: the time request timed out, was retried and delivered a
\* number; the offset was written once and is not 0, and since then the
\* weather job has run again and a reload was clicked
C18_Witness ==
    /\ \E i \in TimeSequences :
          /\ fetches[i].attempts >= 2
          /\ NumbersDelivered(i) = 1
          /\ Inactive(i)
    /\ offsetWrites = 1
    /\ timeOffset # 0
    /\ Ran("autoUpdateWeather", 2)
    /\ clicks > 0

\* Whether payload `data` has the shape the endpoint `url` is to serve: a
\* number, a file name, an object with the weather fields, an object of lists
ExpectedShape(url, data) ==
    CASE url = TimeUrl      -> data.type = "number"
      [] url = WallpaperUrl -> data.type = "string"
      [] url = WeatherUrl   -> data.type = "object" /\ data.val # 0
      [] url = MorningUrl   -> data.type = "object"

\* C19: a delivered payload that has not the shape expected of its endpoint
\* never makes a callback raise: the weather callback then shows
\* "(Weather: Data error)", the reminders callback the one entry "(Error)",
\* and the time and the wallpaper callback change nothing.
C19_WrongShapeNeverRaises ==
    [][\A x \in xhrs \ xhrs' :
          LET was  == fetches[x.id]
              is   == fetches'[x.id]
              data == is.delivered[Len(is.delivered)].data
          IN  (Len(is.delivered) = Len(was.delivered) + 1 /\ ~ExpectedShape(x.url, data))
              => /\ is.raised = was.raised
                 /\ x.url = WeatherUrl => weatherText' = WeatherError
                 /\ x.url = MorningUrl => reminders' = <<"(Error)">>
                 /\ x.url \in {TimeUrl, WallpaperUrl}
                      => timeOffset' = timeOffset /\ backgroundImage' = backgroundImage
      ]_vars

\* The seconds text showing second n
SecondsShown(n) == <<TwoDigits(Num(n)).text>>

\* C20: the recurring jobs never stop.  Once the page is initialized, each job
\* has exactly one scheduled call pending whenever the event loop is idle,
\* whatever the requests' outcomes and the calibration of the offset; and with
\* due timers served and time advancing each job runs again: the ticker that
\* showed second 59 shows second 00, the wallpaper job runs a second time.
C20_JobsNeverStop ==
    /\ [](boot = <<>> /\ running = NoCall
            => /\ Outstanding("autoUpdateClockDisplay") = 1
               /\ Outstanding("autoUpdateWallpaper") = 1)
    /\ (clockText.seconds = SecondsShown(59)) ~> (clockText.seconds = SecondsShown(0))
    /\ Ran("autoUpdateWallpaper", 1) ~> Ran("autoUpdateWallpaper", 2)

\* C2, for the calls the page itself makes: the scheduleCall the wallpaper job
\* makes at page load, a second before its wake time, leads to the job being
\* invoked, whatever the calibration of the offset does while the call waits.
C2_ScheduledCallInvoked ==
    (Pending("autoUpdateWallpaper") /\ ~Ran("autoUpdateWallpaper", 2))
        ~> (running.func = "autoUpdateWallpaper")

====
